---- MODULE Spec2Model ----
(***************************************************************************)
(* Model of the measurement-body resolution chain of the OONI API          *)
(* (api/ooniapi/measurements.py): _fetch_measurement_body and the three    *)
(* source probes it chains (local spool, peer collector hosts, JSONL       *)
(* archive on S3 located through the Clickhouse index).                    *)
(*                                                                         *)
(* Python strings are modelled as tuples of one-character strings so that  *)
(* split("_"), slicing, count("_"), startswith and the lexicographic ">"   *)
(* are computed as the interpreter computes them.  Python's None is the    *)
(* one-element tuple NONE, which is no character string.                   *)
(***************************************************************************)
EXTENDS Integers, Sequences, FiniteSets, TLC

VARIABLES report_id, input, measurement_uid,
          index, archive,
          pc, new_format, fresh, ts, now, order, pos,
          host_i, path, s3loc,
          body, outcome, calls, io,
          s3_src, s3_linenum, s3_pc, s3_n, s3_off, s3_ret,
          incidents, inc_req, inc_resp, inc_old, inc_view,
          conc_env, conc_env0, conc_proc,
          pg_total, pg_resp, pg_seen,
          meta_fastpath, meta_env, meta_req, meta_resp

(* The variables of one resolution (lines 223-343). *)
chainvars == <<report_id, input, measurement_uid, index, archive,
               pc, new_format, fresh, ts, now, order, pos, host_i, path, s3loc,
               body, outcome, calls, io>>

(* The variables of one streamed read of a container (lines 148-164). *)
s3vars == <<s3_src, s3_linenum, s3_pc, s3_n, s3_off, s3_ret>>

(* The incidents table and the last request served (incidents.py). *)
incvars == <<incidents, inc_req, inc_resp, inc_old, inc_view>>

(* The sources shared by concurrent resolutions, their contents at the     *)
(* start, and the local state of each resolution.                          *)
concvars == <<conc_env, conc_env0, conc_proc>>

(* The rows list_measurements selects from, its last answer, and the rows  *)
(* a client has been given since its first request.                        *)
pagevars == <<pg_total, pg_resp, pg_seen>>

(* The fastpath metadata, the sources of the bodies, and the last request  *)
(* for one measurement with its answer.                                    *)
metavars == <<meta_fastpath, meta_env, meta_req, meta_resp>>

(* What a step of a resolution leaves alone. *)
nonchain == <<s3vars, incvars, concvars, pagevars, metavars>>

(* What a step of a streamed read leaves alone. *)
nons3 == <<chainvars, incvars, concvars, pagevars, metavars>>

(* What a request on incidents leaves alone. *)
noninc == <<chainvars, s3vars, concvars, pagevars, metavars>>

(* What a step of one of several resolutions leaves alone. *)
nonconc == <<chainvars, s3vars, incvars, pagevars, metavars>>

(* What a request of list_measurements leaves alone. *)
nonpage == <<chainvars, s3vars, incvars, concvars, metavars>>

(* What a request for one measurement leaves alone. *)
nonmeta == <<chainvars, s3vars, incvars, concvars, pagevars>>

vars == <<chainvars, s3vars, incvars, concvars, pagevars, metavars>>

----------------------------------------------------------------------------
(* Bounds of the model *)
MaxRows == 5
MaxLimit == 3
NumProcs == 2
NumFrames == 3

\* number of hosts in current_app.config["OTHER_COLLECTORS"]
NumPeers == 2
\* largest number of lines held by the archived JSONL container
MaxLines == 2

----------------------------------------------------------------------------
(* Python values *)

NONE == <<"None">>
EMPTY == << >>

\* characters in code-point order; Ord is order-isomorphic to ord()
Alphabet == <<"-", "0", "1", "2", "3", "4", "5", "6", "7", "8", "9",
              "E", "O", "T", "V", "Z", "_", "a", "b", "c", "j", "n", "w", "x">>

Ord(c) == CHOOSE i \in 1..Len(Alphabet) : Alphabet[i] = c

Digits == {"0", "1", "2", "3", "4", "5", "6", "7", "8", "9"}

\* str.__gt__: lexicographic comparison by code point, a proper prefix is smaller
RECURSIVE StrGT(_, _)
StrGT(a, b) ==
    IF a = EMPTY THEN FALSE
    ELSE IF b = EMPTY THEN TRUE
    ELSE IF Head(a) = Head(b) THEN StrGT(Tail(a), Tail(b))
    ELSE Ord(Head(a)) > Ord(Head(b))

\* str.count("_")
RECURSIVE CountUnderscore(_)
CountUnderscore(s) ==
    IF s = EMPTY THEN 0
    ELSE (IF Head(s) = "_" THEN 1 ELSE 0) + CountUnderscore(Tail(s))

\* str.split("_"): the fields between the separators, at least one field
RECURSIVE SplitFrom(_, _, _)
SplitFrom(s, cur, acc) ==
    IF s = EMPTY THEN Append(acc, cur)
    ELSE IF Head(s) = "_" THEN SplitFrom(Tail(s), EMPTY, Append(acc, cur))
    ELSE SplitFrom(Tail(s), Append(cur, Head(s)), acc)

Split(s) == SplitFrom(s, EMPTY, << >>)

\* s[:n]
Slice(s, n) == IF Len(s) <= n THEN s ELSE SubSeq(s, 1, n)

\* str.startswith("20")
StartsWith20(s) == Len(s) >= 2 /\ s[1] = "2" /\ s[2] = "0"

\* int(s) succeeds (over the alphabet above: a non-empty run of digits)
IsInt(s) == s # EMPTY /\ \A i \in 1..Len(s) : s[i] \in Digits

\* truth value of a bytes-or-None result
Truthy(v) == v # NONE /\ v # EMPTY

----------------------------------------------------------------------------
(* Identifiers, documents and source contents the model draws from *)

UID_FRESH == <<"2","0","2","1","0","1","2","4","2","1","0","0","0","9","_","V","E","_","w","c","_","a">>
UID_OLD == <<"2","0","2","0","0","1","0","1","0","0","0","0","0","0","_","V","E","_","w","c","_","b">>
UID_SHORT == <<"2","0","2","2","_","V","E","_","w","c","_","c">>
UID_3F == <<"2","0","2","1","0","1","2","4","2","1","0","0","0","9","_","V","E","_","w","c">>
UID_5F == <<"2","0","2","0","0","1","0","1","0","0","0","0","0","0","_","V","E","_","w","c","_","a","_","b">>
UID_NAN == <<"2","0","2","0","x","1","0","1","0","0","0","0","0","0","_","V","E","_","w","c","_","a">>
UID_19 == <<"1","9","9","9","0","1","0","1","0","0","0","0","0","0","_","V","E","_","w","c","_","a">>
UID_21 == <<"2","1","_","V","E","_","w","c","_","a">>

Uids == {NONE, EMPTY, UID_FRESH, UID_OLD, UID_SHORT, UID_3F, UID_5F, UID_NAN, UID_19, UID_21}

RID_NEW == <<"2","0","2","1","0","1","2","4","T","2","1","Z","_","w","c","_","V","E","_","1","_","n","1","_","O","j">>
RID_OLD == <<"2","0","1","5","0","1","2","4","T","2","1","Z","-","w","c","-","V","E">>

Rids == {RID_NEW, RID_OLD}

INPUT_U == <<"u">>

Inputs == {NONE, EMPTY, INPUT_U}

\* datetime values
DT(Y, M, D, h, m, sec) == [Y |-> Y, M |-> M, D |-> D, h |-> h, m |-> m, s |-> sec]

\* the clock not read yet
NoTime == DT(0, 0, 0, 0, 0, 0)

\* values datetime.utcnow() may give
NowValues ==
    { DT(2021, 1, 24, 21, 0, 0), DT(2021, 1, 24, 21, 30, 0),
      DT(2021, 1, 24, 22, 0, 30), DT(2021, 1, 24, 22, 1, 0),
      DT(2020, 1, 1, 0, 0, 0) }

\* days of month M of year Y
DaysIn(Y, M) ==
    IF M = 2
    THEN (IF (Y % 4 = 0 /\ Y % 100 # 0) \/ Y % 400 = 0 THEN 29 ELSE 28)
    ELSE IF M \in {4, 6, 9, 11} THEN 30 ELSE 31

\* dt - timedelta(hours=1)
MinusOneHour(dt) ==
    IF dt.h >= 1 THEN [dt EXCEPT !.h = @ - 1]
    ELSE IF dt.D > 1 THEN [dt EXCEPT !.h = 23, !.D = @ - 1]
    ELSE IF dt.M > 1 THEN [dt EXCEPT !.h = 23, !.D = DaysIn(dt.Y, dt.M - 1), !.M = @ - 1]
    ELSE [dt EXCEPT !.h = 23, !.D = 31, !.M = 12, !.Y = @ - 1]

\* zero-padded decimal fields of strftime
DigitChar(n) == Alphabet[n + 2]
Pad2(n) == <<DigitChar(n \div 10), DigitChar(n % 10)>>
Pad4(n) == Pad2(n \div 100) \o Pad2(n % 100)

\* strftime with seconds: "%Y%m%d%H%M%S"
Strftime_WithSeconds(dt) ==
    Pad4(dt.Y) \o Pad2(dt.M) \o Pad2(dt.D) \o Pad2(dt.h) \o Pad2(dt.m) \o Pad2(dt.s)

\* dt.strftime("%Y%m%d%H%M")
Strftime(dt) == Pad4(dt.Y) \o Pad2(dt.M) \o Pad2(dt.D) \o Pad2(dt.h) \o Pad2(dt.m)

\* JSON documents are Python dicts: partial functions from keys to values
NoPost == [k \in {} |-> ""]
POST_JSON == ("format" :> "json") @@ ("content" :> "dict_a")
POST_JSON_NOCONTENT == ("format" :> "json")
POST_YAML == ("format" :> "yaml") @@ ("content" :> "dict_a")
POST_NOFORMAT == ("content" :> "dict_a")

POST_JSON_STR == ("format" :> "json") @@ ("content" :> "str_empty")
POST_JSON_NULL == ("format" :> "json") @@ ("content" :> "null")

Posts ==
    {POST_JSON, POST_JSON_NOCONTENT, POST_YAML, POST_NOFORMAT,
     POST_JSON_STR, POST_JSON_NULL}

\* what open(postf) / ujson.load can meet in the spool directory
SpoolFiles ==
    {[st |-> s, post |-> NoPost] : s \in {"absent", "unreadable", "garbled"}}
    \cup {[st |-> "post", post |-> p] : p \in Posts}

\* what a peer can answer to the GET: "post" and "garbled" come with status 200
PeerResponses ==
    {[st |-> s, post |-> NoPost] : s \in {"404", "500", "timeout", "garbled"}}
    \cup {[st |-> "post", post |-> p] : p \in Posts}

\* rows of the fastpath and jsonl tables
FP(uid, rid, inp) == [uid |-> uid, rid |-> rid, inp |-> inp]
JL(rid, inp, linenum) ==
    [rid |-> rid, inp |-> inp, s3path |-> <<"c",".","g","z">>, linenum |-> linenum]

FastpathRows ==
    {FP(UID_FRESH, RID_NEW, INPUT_U), FP(UID_OLD, RID_NEW, EMPTY),
     FP(UID_SHORT, RID_OLD, EMPTY), FP(UID_3F, RID_NEW, INPUT_U),
     FP(UID_NAN, RID_NEW, EMPTY)}

\* two measurements of one report with the same input: their records are
\* lines 0 and 1 of the same container
DUP_INDEX ==
    [up |-> TRUE,
     fastpath |-> {FP(UID_FRESH, RID_NEW, EMPTY), FP(UID_OLD, RID_NEW, EMPTY)},
     jsonl |-> {JL(RID_NEW, EMPTY, 0), JL(RID_NEW, EMPTY, 1)}]

\* the line on which the record of a measurement of DUP_INDEX was written
RecordLine(uid) == IF uid = UID_FRESH THEN 0 ELSE 1

IndexWorlds ==
    { [up |-> TRUE, fastpath |-> {}, jsonl |-> {}],
      [up |-> TRUE, fastpath |-> FastpathRows, jsonl |-> {}],
      [up |-> TRUE, fastpath |-> FastpathRows,
       jsonl |-> {JL(RID_NEW, INPUT_U, 0), JL(RID_NEW, EMPTY, 1), JL(RID_OLD, EMPTY, 0)}],
      DUP_INDEX,
      [up |-> TRUE, fastpath |-> FastpathRows, jsonl |-> {JL(RID_NEW, EMPTY, 1)}],
      [up |-> FALSE, fastpath |-> FastpathRows,
       jsonl |-> {JL(RID_NEW, INPUT_U, 0), JL(RID_NEW, EMPTY, 1), JL(RID_OLD, EMPTY, 0)}] }

\* line n (0-based) of the gzipped JSONL container
LineOf(n) == <<"{", "n", Alphabet[n + 2], "}", "\n">>

Containers ==
    {[readable |-> FALSE, lines |-> << >>]}
    \cup {[readable |-> TRUE, lines |-> [i \in 1..k |-> LineOf(i - 1)]] : k \in 0..MaxLines}

----------------------------------------------------------------------------
(* Results of a call: a returned value or a raised exception *)

Ret(v) == [kind |-> "ret", val |-> v]
Raise(e) == [kind |-> "raise", val |-> <<e>>]

----------------------------------------------------------------------------
(* The source probes *)

\* body.encode() of a content that is a string, without ujson.dumps
DumpsEncode_StrAsIs(content) ==
    CASE content = "dict_a" -> <<"{", "\"", "a", "\"", ":", "1", "}">>
      [] content = "dict_empty" -> <<"{", "}">>
      [] content = "str_empty" -> << >>
      [] content = "null" -> <<"n", "u", "l", "l">>

\* ujson.dumps(body).encode(): the JSON text of {"a": 1}, {}, "" and null
DumpsEncode(content) ==
    CASE content = "dict_a" -> <<"{", "\"", "a", "\"", ":", "1", "}">>
      [] content = "dict_empty" -> <<"{", "}">>
      [] content = "str_empty" -> <<"\"", "\"">>
      [] content = "null" -> <<"n", "u", "l", "l">>

\* dict.get(key, default)
Get(d, key, default) == IF key \in DOMAIN d THEN d[key] ELSE default

\* _unwrap_post without the test of the format discriminator
_unwrap_post_AnyFormat(post) ==
    [exc |-> "", content |-> Get(post, "content", "dict_empty")]

_unwrap_post(post) ==
    LET fmt == Get(post, "format", "")
    IN IF fmt = "json"
       THEN [exc |-> "", content |-> Get(post, "content", "dict_empty")]
       ELSE [exc |-> "Exception", content |-> ""]

POST_EXT == <<".", "p", "o", "s", "t">>

\* lines 230-235 without the int(hour) check of line 233
DiskPath_NoIntCheck(msmt_uid) ==
    IF ~StartsWith20(msmt_uid) THEN [exc |-> "AssertionError", rel |-> EMPTY]
    ELSE LET f == Split(msmt_uid)
         IN IF Len(f) # 4 THEN [exc |-> "ValueError", rel |-> EMPTY]
            ELSE [exc |-> "",
                  rel |-> Slice(f[1], 10) \o <<"_">> \o f[2] \o <<"_">> \o f[3]
                          \o <<"/">> \o msmt_uid \o POST_EXT]

\* lines 230-235: the checks and the path of the spool file, relative to spooldir
DiskPath(msmt_uid) ==
    IF ~StartsWith20(msmt_uid) THEN [exc |-> "AssertionError", rel |-> EMPTY]
    ELSE LET f == Split(msmt_uid)
         IN IF Len(f) # 4 THEN [exc |-> "ValueError", rel |-> EMPTY]
            ELSE LET hour == Slice(f[1], 10)
                 IN IF ~IsInt(hour) THEN [exc |-> "ValueError", rel |-> EMPTY]
                    ELSE [exc |-> "",
                          rel |-> hour \o <<"_">> \o f[2] \o <<"_">> \o f[3]
                                  \o <<"/">> \o msmt_uid \o POST_EXT]

\* lines 237-243: what the spool probe makes of the file it opened
DiskBody(file) ==
    CASE file.st = "absent" -> Ret(NONE)
      [] file.st = "unreadable" -> Raise("PermissionError")
      [] file.st = "garbled" -> Raise("ValueError")
      [] file.st = "post" ->
            LET u == _unwrap_post(file.post)
            IN IF u.exc # "" THEN Raise(u.exc) ELSE Ret(DumpsEncode(u.content))

\* lines 264-272 with the whole timestamp in place of tstamp[:10]
HostsPath_WholeTimestamp(msmt_uid) ==
    IF ~StartsWith20(msmt_uid) THEN [exc |-> "AssertionError", rel |-> EMPTY]
    ELSE LET f == Split(msmt_uid)
         IN IF Len(f) # 4 THEN [exc |-> "ValueError", rel |-> EMPTY]
            ELSE IF ~IsInt(Slice(f[1], 10)) THEN [exc |-> "ValueError", rel |-> EMPTY]
            ELSE [exc |-> "",
                  rel |-> f[1] \o <<"_">> \o f[2] \o <<"_">> \o f[3]
                          \o <<"/">> \o msmt_uid \o POST_EXT]

\* lines 264-272: the checks and the path requested from the peers
HostsPath(msmt_uid) ==
    IF ~StartsWith20(msmt_uid) THEN [exc |-> "AssertionError", rel |-> EMPTY]
    ELSE LET f == Split(msmt_uid)
         IN IF Len(f) # 4 THEN [exc |-> "ValueError", rel |-> EMPTY]
            ELSE LET hour == Slice(f[1], 10)
                 IN IF ~IsInt(hour) THEN [exc |-> "ValueError", rel |-> EMPTY]
                    ELSE [exc |-> "",
                          rel |-> hour \o <<"_">> \o f[2] \o <<"_">> \o f[3]
                                  \o <<"/">> \o msmt_uid \o POST_EXT]

\* lines 278-291 with an unexpected status ending the loop instead of "continue"
HostAnswer_StopOn500(resp) ==
    CASE resp.st = "404" -> [next |-> TRUE, val |-> NONE]
      [] resp.st = "500" -> [next |-> FALSE, val |-> NONE]
      [] resp.st = "timeout" -> [next |-> TRUE, val |-> NONE]
      [] resp.st = "garbled" -> [next |-> TRUE, val |-> NONE]
      [] resp.st = "post" ->
            LET u == _unwrap_post(resp.post)
            IN IF u.exc # "" THEN [next |-> TRUE, val |-> NONE]
               ELSE [next |-> FALSE, val |-> DumpsEncode(u.content)]

\* lines 278-291: what one peer's answer gives; "next" moves on to the next peer
HostAnswer(resp) ==
    CASE resp.st = "404" -> [next |-> TRUE, val |-> NONE]
      [] resp.st = "500" -> [next |-> TRUE, val |-> NONE]
      [] resp.st = "timeout" -> [next |-> TRUE, val |-> NONE]
      [] resp.st = "garbled" -> [next |-> TRUE, val |-> NONE]
      [] resp.st = "post" ->
            LET u == _unwrap_post(resp.post)
            IN IF u.exc # "" THEN [next |-> TRUE, val |-> NONE]
               ELSE [next |-> FALSE, val |-> DumpsEncode(u.content)]

\* the SELECT of lines 86-90 joining on report_id alone
UidRows_RidOnly(idx, uid) ==
    {j \in idx.jsonl : \E f \in idx.fastpath : f.uid = uid /\ f.rid = j.rid}

\* the SELECT of measurement_uid_to_s3path_linenum, before LIMIT 1
UidRows(idx, uid) ==
    {j \in idx.jsonl : \E f \in idx.fastpath :
        f.uid = uid /\ f.rid = j.rid /\ f.inp = j.inp}

\* the SELECT of report_id_input_to_s3path_linenum, before LIMIT 1
RidRows(idx, rid, inp) == {j \in idx.jsonl : j.rid = rid /\ j.inp = inp}

\* line 202 passing input on unchanged
InputOrEmpty_Unchanged(inp) == inp

\* input or ""
InputOrEmpty(inp) == IF Truthy(inp) THEN inp ELSE EMPTY

\* lines 158-164: line number linenum of the container, or an exception
_fetch_jsonl_measurement_body_from_s3(container, linenum) ==
    IF ~container.readable THEN Raise("URLError")
    ELSE IF linenum < Len(container.lines) THEN Ret(container.lines[linenum + 1])
    ELSE Raise("MsmtNotFound")

----------------------------------------------------------------------------
(* The container as a byte stream: gzip members (frames) read back to back. *)
(* The uploader wrote MaxLines records, one per line; the stored object     *)
(* holds the first `cut` bytes of them, split into NumFrames members, and   *)
(* its compressed stream either ends with its end-of-stream marker or not.  *)

RECURSIVE Concat(_)
Concat(seqs) == IF seqs = << >> THEN << >> ELSE Head(seqs) \o Concat(Tail(seqs))

Original == Concat([i \in 1..MaxLines |-> LineOf(i - 1)])

\* offsets of record n in the original content
StartOff(n) == Len(Concat([i \in 1..n |-> LineOf(i - 1)]))
EndOff(n) == StartOff(n) + Len(LineOf(n))

Framings(len) ==
    {f \in [1..(NumFrames - 1) -> 0..len] :
        \A i \in 1..(NumFrames - 2) : f[i] <= f[i + 1]}

FramesOf(stream, f) ==
    [i \in 1..NumFrames |->
        SubSeq(stream,
               (IF i = 1 THEN 0 ELSE f[i - 1]) + 1,
               IF i = NumFrames THEN Len(stream) ELSE f[i])]

S3Sources ==
    {[reachable |-> FALSE, frames |-> [i \in 1..NumFrames |-> << >>], end |-> "clean"]}
    \cup UNION {
        {[reachable |-> TRUE,
          frames |-> FramesOf(SubSeq(Original, 1, cut), f),
          end |-> e] : f \in Framings(cut), e \in {"clean", "cut"}}
        : cut \in 0..Len(Original)}

\* gzip.GzipFile reads the members one after the other as one stream
Decompress(frames) == Concat(frames)

\* index of the first line terminator after off, 0 when there is none
NewlineAt(stream, off) ==
    LET nl == {i \in (off + 1)..Len(stream) : stream[i] = "\n"}
    IN IF nl = {} THEN 0 ELSE CHOOSE i \in nl : \A j \in nl : i <= j

ReadLine_NoTerminator(stream, end, off) ==
    LET e == NewlineAt(stream, off)
    IN IF off >= Len(stream)
       THEN IF end = "clean"
            THEN [kind |-> "eof", line |-> << >>, off |-> off]
            ELSE [kind |-> "error", line |-> << >>, off |-> off]
       ELSE IF e # 0
       THEN [kind |-> "line", line |-> SubSeq(stream, off + 1, e - 1), off |-> e]
       ELSE IF end = "clean"
       THEN [kind |-> "line", line |-> SubSeq(stream, off + 1, Len(stream)),
             off |-> Len(stream)]
       ELSE [kind |-> "error", line |-> << >>, off |-> Len(stream)]

\* next(f): the bytes up to and including the next terminator; what is left
\* when the stream ends first; EOFError when the compressed stream stops
\* short of its end-of-stream marker
ReadLine(stream, end, off) ==
    LET e == NewlineAt(stream, off)
    IN IF off >= Len(stream)
       THEN IF end = "clean"
            THEN [kind |-> "eof", line |-> << >>, off |-> off]
            ELSE [kind |-> "error", line |-> << >>, off |-> off]
       ELSE IF e # 0
       THEN [kind |-> "line", line |-> SubSeq(stream, off + 1, e), off |-> e]
       ELSE IF end = "clean"
       THEN [kind |-> "line", line |-> SubSeq(stream, off + 1, Len(stream)),
             off |-> Len(stream)]
       ELSE [kind |-> "error", line |-> << >>, off |-> Len(stream)]

NoResult == [kind |-> "none", val |-> NONE]

LoopBody_ReadsAll(stream, r, n, linenum) ==
    IF n = linenum
    THEN [pc |-> "done", n |-> n, off |-> Len(stream), ret |-> Ret(r.line)]
    ELSE [pc |-> "iter", n |-> n + 1, off |-> r.off, ret |-> NoResult]

\* if n == linenum: return line
LoopBody(stream, r, n, linenum) ==
    IF n = linenum
    THEN [pc |-> "done", n |-> n, off |-> r.off, ret |-> Ret(r.line)]
    ELSE [pc |-> "iter", n |-> n + 1, off |-> r.off, ret |-> NoResult]

S3Idle ==
    /\ s3_src = [reachable |-> FALSE, frames |-> [i \in 1..NumFrames |-> << >>],
                 end |-> "clean"]
    /\ s3_linenum = 0
    /\ s3_pc = "idle"
    /\ s3_n = 0
    /\ s3_off = 0
    /\ s3_ret = NoResult

----------------------------------------------------------------------------
(* Incidents (incidents.py).  The table holds one row per id: an insert of  *)
(* an id already stored replaces the row (ReplacingMergeTree read FINAL,    *)
(* optimized after every write).                                            *)

Accounts == {"admin1", "user1", "user2"}

Role_AllUsers(account) == "user"

\* get_client_role()
Role(account) == IF account = "admin1" THEN "admin" ELSE "user"

IncidentIds == {1, 2}
Titles == {"t1", "t2"}

IncidentRow(id, creator, published, title) ==
    [id |-> id, creator_account_id |-> creator, published |-> published,
     title |-> title, deleted |-> 0]

\* a request: the caller, the action of the URL and the JSON body.  has_id
\* tells whether the body has an id, wellformed whether
\* prepare_incident_dict accepts it; published is int(req.get("published", 0))
Request(action, caller, has_id, id, published, title, wellformed) ==
    [action |-> action, caller |-> caller, has_id |-> has_id, id |-> id,
     published |-> published, title |-> title, wellformed |-> wellformed,
     only_mine |-> FALSE]

\* the integers int() can give for "published": 0, 1, and one other
PublishedValues == {0, 1, 2}

Requests ==
    {Request("other", c, FALSE, 1, 0, "t1", TRUE) : c \in Accounts}
    \cup {Request("create", c, FALSE, 1, p, t, w) :
            c \in Accounts, p \in PublishedValues, t \in Titles, w \in BOOLEAN}
    \cup {Request("update", c, TRUE, i, p, t, w) :
            c \in Accounts, i \in IncidentIds, p \in PublishedValues, t \in Titles,
            w \in BOOLEAN}
    \cup {Request(a, c, FALSE, 1, 0, "t1", TRUE) :
            a \in {"update", "delete"}, c \in Accounts}
    \cup {Request("delete", c, TRUE, i, 0, "t1", TRUE) :
            c \in Accounts, i \in IncidentIds}

NoRequest == Request("none", "admin1", FALSE, 1, 0, "t1", FALSE)

Ok(id) == [status |-> "ok", error |-> "", id |-> id]
Jerror(e) == [status |-> "error", error |-> e, id |-> 0]
NoResponse == [status |-> "none", error |-> "", id |-> 0]

user_cannot_update_OwnOnly(table, incident_id, account_id) ==
    Cardinality({r \in table :
        /\ r.deleted # 1
        /\ r.id = incident_id
        /\ r.creator_account_id = account_id}) > 0

\* SELECT count() ... WHERE deleted != 1 AND id = ... AND creator_account_id != ...
user_cannot_update(table, incident_id, account_id) ==
    Cardinality({r \in table :
        /\ r.deleted # 1
        /\ r.id = incident_id
        /\ r.creator_account_id # account_id}) > 0

\* prepare_incident_dict and insert_click: the row written for a request
InsertRow(table, req, id) ==
    {r \in table : r.id # id}
    \cup {IncidentRow(id, req.caller, req.published, req.title)}

\* ALTER TABLE incidents DELETE WHERE id = ...
DeleteRows(table, id) == {r \in table : r.id # id}

\* get_account_id_or_none() of a caller who is not logged in
NoAccount == "None"

\* the GET requests: search with only_mine, show with the id of the URL
ReadRequests ==
    {[Request("search", c, FALSE, 1, 0, "t1", TRUE) EXCEPT !.only_mine = m] :
        c \in Accounts \cup {NoAccount}, m \in BOOLEAN}
    \cup {Request("show", c, TRUE, i, 0, "t1", TRUE) :
            c \in Accounts \cup {NoAccount}, i \in IncidentIds}

\* the account_id query parameter of lines 75-80 and 121-126
AccountParam(account_id) ==
    IF account_id = NoAccount THEN "never-match" ELSE account_id

\* the columns selected: r["published"] = bool(r["published"])
ViewRow(r, account_id) ==
    [id |-> r.id, title |-> r.title, published |-> (r.published # 0),
     mine |-> (r.creator_account_id = AccountParam(account_id))]

AnonWhere_NoFilter(r, account_id) == TRUE

\* lines 73-75 and 121-123: AND published = 1 for a caller without account
AnonWhere(r, account_id) == account_id = NoAccount => r.published = 1

\* the rows of search_list_incidents when the query is made
SearchRows(table, account_id, only_mine) ==
    {ViewRow(r, account_id) : r \in {x \in table :
        /\ x.deleted # 1
        /\ only_mine => x.creator_account_id = account_id
        /\ AnonWhere(x, account_id)}}

\* the rows of show_incident before LIMIT 1
ShowRows(table, account_id, incident_id) ==
    {ViewRow(r, account_id) : r \in {x \in table :
        /\ x.id = incident_id
        /\ x.deleted # 1
        /\ AnonWhere(x, account_id)}}

IncIdle ==
    /\ incidents = {}
    /\ inc_req = NoRequest
    /\ inc_resp = NoResponse
    /\ inc_old = {}
    /\ inc_view = {}

----------------------------------------------------------------------------
(* Several resolutions at once.  Each runs _fetch_measurement_body on its   *)
(* own locals (lines 297-343 keep everything in local variables); the       *)
(* spool, the peers, the index and the container are the same for all.      *)

Procs == 1..NumProcs

Local(uid, n, pc_, order_, pos_, host_i_, linenum, body_, outcome_, at) ==
    [uid |-> uid, now |-> n, pc |-> pc_, order |-> order_, pos |-> pos_,
     host_i |-> host_i_, linenum |-> linenum, body |-> body_,
     outcome |-> outcome_, at |-> at]

Unstarted(uid) == Local(uid, NoTime, "start", << >>, 0, 0, 0, NONE, "pending", "")

\* a resolution dropped at the step it was about to make: its locals are gone
Abandoned(uid, at) == Local(uid, NoTime, "abandoned", << >>, 0, 0, 0, NONE, "pending", at)

ConcIdle ==
    /\ conc_env = [spool |-> [st |-> "absent", post |-> NoPost],
                   peers |-> [i \in 1..NumPeers |-> [st |-> "404", post |-> NoPost]],
                   index |-> [up |-> TRUE, fastpath |-> {}, jsonl |-> {}],
                   archive |-> [readable |-> FALSE, lines |-> << >>]]
    /\ conc_env0 = conc_env
    /\ conc_proc = [p \in Procs |-> Abandoned(NONE, "")]

----------------------------------------------------------------------------
(* list_measurements: the rows selected are numbered 1..pg_total in the     *)
(* order of the query; a request takes `limit` of them from `offset`.       *)

\* math.ceil(a / b) rounding down instead
CeilDiv_Floor(a, b) == a \div b

\* math.ceil(a / b) for a >= 0 and b >= 1
CeilDiv(a, b) == (a + b - 1) \div b

NoNext == [has |-> FALSE, offset |-> 0, limit |-> 0]

\* query.offset(offset).limit(limit): the rows of the window
Window(total, offset, limit) ==
    [i \in 1..(IF offset >= total THEN 0
               ELSE IF total - offset < limit THEN total - offset ELSE limit)
       |-> offset + i]

\* lines 921-953: the metadata and the results of one request
list_measurements(total, offset, limit) ==
    LET results == Window(total, offset, limit)
        short == Len(results) < limit
    IN [offset |-> offset,
        limit |-> limit,
        count |-> IF short THEN offset + Len(results) ELSE -1,
        pages |-> IF short THEN CeilDiv(offset + Len(results), limit) ELSE -1,
        current_page |-> CeilDiv(offset, limit) + 1,
        next_url |-> IF short THEN NoNext
                     ELSE [has |-> TRUE, offset |-> offset + limit, limit |-> limit],
        results |-> SubSeq(results, 1,
                           IF Len(results) < limit THEN Len(results) ELSE limit)]

NoPage ==
    [offset |-> 0, limit |-> 0, count |-> -1, pages |-> -1, current_page |-> 0,
     next_url |-> NoNext, results |-> << >>]

PageIdle ==
    /\ pg_total = 0
    /\ pg_resp = NoPage
    /\ pg_seen = << >>

NoMetaRequest ==
    [endpoint |-> "none", has_uid |-> FALSE, uid |-> NONE, full |-> FALSE,
     now |-> NoTime]

NoMetaResponse == [status |-> "none", body |-> NONE, probed |-> FALSE]

MetaIdle ==
    /\ meta_fastpath = {}
    /\ meta_env = [spool |-> [st |-> "absent", post |-> NoPost],
                   peers |-> [i \in 1..NumPeers |-> [st |-> "404", post |-> NoPost]],
                   index |-> [up |-> TRUE, fastpath |-> {}, jsonl |-> {}],
                   archive |-> [readable |-> FALSE, lines |-> << >>]]
    /\ meta_req = NoMetaRequest
    /\ meta_resp = NoMetaResponse

----------------------------------------------------------------------------
(* _fetch_measurement_body as a state machine.                              *)
(* calls: the source probes completed so far, with what each returned.      *)
(* io: every file open, peer request, index query and container read made.  *)

IoEvent(op, host, rel, st, post) ==
    [op |-> op, host |-> host, rel |-> rel, st |-> st, post |-> post]

ChainInit ==
    /\ report_id \in Rids
    /\ input \in Inputs
    /\ measurement_uid \in Uids
    /\ index \in IndexWorlds
    /\ archive \in Containers
    /\ pc = "start"
    /\ new_format = FALSE
    /\ fresh = FALSE
    /\ ts = EMPTY
    /\ now = NoTime
    /\ order = << >>
    /\ pos = 0
    /\ host_i = 0
    /\ path = EMPTY
    /\ s3loc = [s3path |-> EMPTY, linenum |-> 0]
    /\ body = NONE
    /\ outcome = "pending"
    /\ calls = << >>
    /\ io = << >>

Init == ChainInit /\ S3Idle /\ IncIdle /\ ConcIdle /\ PageIdle /\ MetaIdle

\* lines 317-336: the three orders of the "or" chains
FreshOrder_PeersFirst == <<"hosts", "disk", "click">>
ArchivedOrder_SpoolFirst == <<"disk", "click", "hosts">>
FreshOrder == <<"disk", "hosts", "click">>
ArchivedOrder == <<"click", "disk", "hosts">>
LegacyOrder_ThenSpool == <<"click", "disk", "hosts">>

\* lines 333-336: the archive alone
LegacyOrder == <<"click">>

\* the classification made on report_id instead of measurement_uid
Classify_ByReportId ==
    /\ pc = "start"
    /\ LET nf == CountUnderscore(report_id) = 5
       IN /\ new_format' = nf
          /\ IF nf
             THEN \E n \in NowValues :
                    LET t == Strftime(MinusOneHour(n))
                    IN /\ now' = n
                       /\ ts' = t
                       /\ fresh' = StrGT(report_id, t)
                       /\ order' = IF StrGT(report_id, t)
                                   THEN FreshOrder ELSE ArchivedOrder
             ELSE /\ UNCHANGED <<ts, now, fresh>>
                  /\ order' = LegacyOrder
    /\ pos' = 1
    /\ pc' = "probe"
    /\ UNCHANGED nonchain
    /\ UNCHANGED <<report_id, input, measurement_uid, index, archive,
                   host_i, path, s3loc, body, outcome, calls, io>>

\* lines 307-336: count the underscores, read the clock, pick the chain
Classify ==
    /\ pc = "start"
    /\ LET nf == CountUnderscore(report_id) = 5 /\ Truthy(measurement_uid)
       IN /\ new_format' = nf
          /\ IF nf
             THEN \E n \in NowValues :
                    LET t == Strftime(MinusOneHour(n))
                    IN /\ now' = n
                       /\ ts' = t
                       /\ fresh' = StrGT(measurement_uid, t)
                       /\ order' = IF StrGT(measurement_uid, t)
                                   THEN FreshOrder ELSE ArchivedOrder
             ELSE /\ UNCHANGED <<ts, now, fresh>>
                  /\ order' = LegacyOrder
    /\ pos' = 1
    /\ pc' = "probe"
    /\ UNCHANGED nonchain
    /\ UNCHANGED <<report_id, input, measurement_uid, index, archive,
                   host_i, path, s3loc, body, outcome, calls, io>>

\* a probe raised: nothing in _fetch_measurement_body catches it
Escape(src, r) ==
    /\ calls' = Append(calls, [src |-> src, res |-> r])
    /\ outcome' = r.val[1]
    /\ pc' = "done"
    /\ UNCHANGED <<pos, body>>

\* a chain that calls the same source again after a not-present answer
Yield_Retry(src, v) ==
    /\ calls' = Append(calls, [src |-> src, res |-> Ret(v)])
    /\ body' = v
    /\ UNCHANGED outcome
    /\ IF Truthy(v)
       THEN pc' = "return" /\ pos' = pos
       ELSE pc' = "probe" /\ pos' = pos

\* a probe returned v: "or" keeps a truthy value, else evaluates the next operand
Yield(src, v) ==
    /\ calls' = Append(calls, [src |-> src, res |-> Ret(v)])
    /\ body' = v
    /\ UNCHANGED outcome
    /\ IF Truthy(v) \/ pos = Len(order)
       THEN pc' = "return" /\ pos' = pos
       ELSE pc' = "probe" /\ pos' = pos + 1

Advance(src, r) == IF r.kind = "raise" THEN Escape(src, r) ELSE Yield(src, r.val)

\* lines 223-243
FetchOnDisk ==
    /\ pc = "probe"
    /\ order[pos] = "disk"
    /\ LET p == DiskPath(measurement_uid)
       IN IF p.exc # ""
          THEN /\ Advance("disk", Raise(p.exc))
               /\ UNCHANGED io
          ELSE \E file \in SpoolFiles :
                 /\ io' = Append(io, IoEvent("open", 0, p.rel, file.st, file.post))
                 /\ Advance("disk", DiskBody(file))
    /\ UNCHANGED nonchain
    /\ UNCHANGED <<report_id, input, measurement_uid, index, archive,
                   new_format, fresh, ts, now, order, host_i, path, s3loc>>

\* lines 264-272: derive the path, or give up on the peers
HostsEnter ==
    /\ pc = "probe"
    /\ order[pos] = "hosts"
    /\ LET p == HostsPath(measurement_uid)
       IN IF p.exc # ""
          THEN /\ Advance("hosts", Ret(NONE))
               /\ UNCHANGED <<host_i, path>>
          ELSE /\ path' = p.rel
               /\ host_i' = 1
               /\ pc' = "hosts"
               /\ UNCHANGED <<pos, body, outcome, calls>>
    /\ UNCHANGED nonchain
    /\ UNCHANGED <<report_id, input, measurement_uid, index, archive,
                   new_format, fresh, ts, now, order, s3loc, io>>

\* lines 274-291: one iteration of the loop over OTHER_COLLECTORS
HostsRequest ==
    /\ pc = "hosts"
    /\ host_i <= NumPeers
    /\ \E resp \in PeerResponses :
         LET a == HostAnswer(resp)
         IN /\ io' = Append(io, IoEvent("GET", host_i, path, resp.st, resp.post))
            /\ IF a.next
               THEN /\ host_i' = host_i + 1
                    /\ UNCHANGED <<pc, pos, body, outcome, calls>>
               ELSE /\ Advance("hosts", Ret(a.val))
                    /\ UNCHANGED host_i
    /\ UNCHANGED nonchain
    /\ UNCHANGED <<report_id, input, measurement_uid, index, archive,
                   new_format, fresh, ts, now, order, path, s3loc>>

\* line 293: every host was tried
HostsExhausted ==
    /\ pc = "hosts"
    /\ host_i > NumPeers
    /\ Advance("hosts", Ret(NONE))
    /\ UNCHANGED nonchain
    /\ UNCHANGED <<report_id, input, measurement_uid, index, archive,
                   new_format, fresh, ts, now, order, host_i, path, s3loc, io>>

\* line 193 written as "if measurement_uid:"
LocateByUid_Truthy(uid) == Truthy(uid)

\* line 193: measurement_uid is not None
LocateByUid(uid) == uid # NONE

\* lines 193-198 with 84-98: locate by measurement_uid
ClickLocateByUid ==
    /\ pc = "probe"
    /\ order[pos] = "click"
    /\ LocateByUid(measurement_uid)
    /\ LET rows == UidRows(index, measurement_uid)
           ev(st) == IoEvent("uid_lookup", 0, measurement_uid, st, NoPost)
       IN IF ~index.up
          THEN /\ io' = Append(io, ev("down"))
               /\ Advance("click", Raise("OperationalError"))
               /\ UNCHANGED s3loc
          ELSE IF rows = {}
          THEN /\ io' = Append(io, ev("norow"))
               /\ Advance("click", Ret(NONE))
               /\ UNCHANGED s3loc
          ELSE \E row \in rows :
                 /\ io' = Append(io, ev("row"))
                 /\ s3loc' = [s3path |-> row.s3path, linenum |-> row.linenum]
                 /\ pc' = "s3"
                 /\ UNCHANGED <<pos, body, outcome, calls>>
    /\ UNCHANGED nonchain
    /\ UNCHANGED <<report_id, input, measurement_uid, index, archive,
                   new_format, fresh, ts, now, order, host_i, path>>

\* lines 200-206 with 167-182: locate by (report_id, input)
ClickLocateByRid ==
    /\ pc = "probe"
    /\ order[pos] = "click"
    /\ ~LocateByUid(measurement_uid)
    /\ LET inp == InputOrEmpty(input)
           rows == RidRows(index, report_id, inp)
           ev(st) == IoEvent("rid_lookup", 0, report_id \o <<" ">> \o inp, st, NoPost)
       IN IF ~index.up
          THEN /\ io' = Append(io, ev("down"))
               /\ Advance("click", Ret(NONE))
               /\ UNCHANGED s3loc
          ELSE IF rows = {}
          THEN /\ io' = Append(io, ev("norow"))
               /\ Advance("click", Ret(NONE))
               /\ UNCHANGED s3loc
          ELSE \E row \in rows :
                 /\ io' = Append(io, ev("row"))
                 /\ s3loc' = [s3path |-> row.s3path, linenum |-> row.linenum]
                 /\ pc' = "s3"
                 /\ UNCHANGED <<pos, body, outcome, calls>>
    /\ UNCHANGED nonchain
    /\ UNCHANGED <<report_id, input, measurement_uid, index, archive,
                   new_format, fresh, ts, now, order, host_i, path>>

\* lines 208-213: read the container, any exception becomes None
ClickFetchS3 ==
    /\ pc = "s3"
    /\ LET r == _fetch_jsonl_measurement_body_from_s3(archive, s3loc.linenum)
       IN /\ io' = Append(io, IoEvent("s3", 0, s3loc.s3path,
                                      IF archive.readable THEN "read" ELSE "unreadable",
                                      NoPost))
          /\ Advance("click", IF r.kind = "raise" THEN Ret(NONE) ELSE r)
    /\ UNCHANGED nonchain
    /\ UNCHANGED <<report_id, input, measurement_uid, index, archive,
                   new_format, fresh, ts, now, order, host_i, path, s3loc>>

\* lines 338-343
Return ==
    /\ pc = "return"
    /\ outcome' = IF Truthy(body) THEN "body" ELSE "MsmtNotFound"
    /\ pc' = "done"
    /\ UNCHANGED nonchain
    /\ UNCHANGED <<report_id, input, measurement_uid, index, archive,
                   new_format, fresh, ts, now, order, pos, host_i, path, s3loc,
                   body, calls, io>>

Next ==
    \/ Classify
    \/ FetchOnDisk
    \/ HostsEnter
    \/ HostsRequest
    \/ HostsExhausted
    \/ ClickLocateByUid
    \/ ClickLocateByRid
    \/ ClickFetchS3
    \/ Return

Spec == Init /\ [][Next]_vars

\* one probe called on its own, as _fetch_measurement_body_by_uid (line 249)
\* calls the spool probe: the probes are typed to take a str, not None
DirectCall ==
    /\ pc = "start"
    /\ \E src \in {"disk", "hosts", "click"} :
         /\ src \in {"disk", "hosts"} => measurement_uid # NONE
         /\ order' = <<src>>
    /\ pos' = 1
    /\ pc' = "probe"
    /\ UNCHANGED nonchain
    /\ UNCHANGED <<report_id, input, measurement_uid, index, archive,
                   new_format, fresh, ts, now, host_i, path, s3loc,
                   body, outcome, calls, io>>

NextProbe ==
    \/ DirectCall
    \/ FetchOnDisk
    \/ HostsEnter
    \/ HostsRequest
    \/ HostsExhausted
    \/ ClickLocateByUid
    \/ ClickLocateByRid
    \/ ClickFetchS3

\* the probes exercised one at a time, outside the chain
SpecProbe == Init /\ [][NextProbe]_vars

----------------------------------------------------------------------------
(* _fetch_jsonl_measurement_body_from_s3 as a state machine over the byte   *)
(* stream of one container.                                                 *)
(* s3_off: how much of the decompressed stream the loop has taken.          *)

ChainIdle ==
    /\ report_id = RID_NEW
    /\ input = NONE
    /\ measurement_uid = NONE
    /\ index = [up |-> FALSE, fastpath |-> {}, jsonl |-> {}]
    /\ archive = [readable |-> FALSE, lines |-> << >>]
    /\ pc = "idle"
    /\ new_format = FALSE
    /\ fresh = FALSE
    /\ ts = EMPTY
    /\ now = NoTime
    /\ order = << >>
    /\ pos = 0
    /\ host_i = 0
    /\ path = EMPTY
    /\ s3loc = [s3path |-> EMPTY, linenum |-> 0]
    /\ body = NONE
    /\ outcome = "pending"
    /\ calls = << >>
    /\ io = << >>

InitS3 ==
    /\ ChainIdle
    /\ PageIdle
    /\ MetaIdle
    /\ IncIdle
    /\ ConcIdle
    /\ s3_src \in S3Sources
    /\ s3_linenum \in 0..MaxLines
    /\ s3_pc = "open"
    /\ s3_n = 0
    /\ s3_off = 0
    /\ s3_ret = NoResult

\* r = urlopen(url); f = gzip.GzipFile(fileobj=r, mode="r")
S3Open ==
    /\ s3_pc = "open"
    /\ IF s3_src.reachable
       THEN /\ s3_pc' = "iter"
            /\ s3_ret' = s3_ret
       ELSE /\ s3_pc' = "done"
            /\ s3_ret' = Raise("URLError")
    /\ UNCHANGED <<s3_src, s3_linenum, s3_n, s3_off>>
    /\ UNCHANGED nons3

\* one turn of `for n, line in enumerate(f)`
S3Line ==
    /\ s3_pc = "iter"
    /\ LET stream == Decompress(s3_src.frames)
           r == ReadLine(stream, s3_src.end, s3_off)
       IN /\ r.kind # "eof"
          /\ IF r.kind = "error"
             THEN /\ s3_pc' = "done"
                  /\ s3_ret' = Raise("EOFError")
                  /\ s3_off' = r.off
                  /\ s3_n' = s3_n
             ELSE LET st == LoopBody(stream, r, s3_n, s3_linenum)
                  IN /\ s3_pc' = st.pc
                     /\ s3_ret' = st.ret
                     /\ s3_off' = st.off
                     /\ s3_n' = st.n
    /\ UNCHANGED <<s3_src, s3_linenum>>
    /\ UNCHANGED nons3

\* the loop ran out of lines: raise MsmtNotFound
S3Exhausted ==
    /\ s3_pc = "iter"
    /\ ReadLine(Decompress(s3_src.frames), s3_src.end, s3_off).kind = "eof"
    /\ s3_pc' = "done"
    /\ s3_ret' = Raise("MsmtNotFound")
    /\ UNCHANGED <<s3_src, s3_linenum, s3_n, s3_off>>
    /\ UNCHANGED nons3

NextS3 ==
    \/ S3Open
    \/ S3Line
    \/ S3Exhausted

SpecS3 == InitS3 /\ [][NextS3]_vars

----------------------------------------------------------------------------
(* post_update_incident, one request at a time *)

InitInc ==
    /\ ChainIdle
    /\ PageIdle
    /\ MetaIdle
    /\ S3Idle
    /\ ConcIdle
    /\ IncIdle

\* action not in ("create", "update", "delete")
PostOther ==
    \E req \in Requests :
        /\ req.action = "other"
        /\ inc_req' = req
        /\ inc_resp' = Jerror("Invalid request")
        /\ inc_old' = {}
        /\ inc_view' = {}
        /\ UNCHANGED incidents
        /\ UNCHANGED noninc

\* action == "create": the id is drawn by generate_random_intuid
PostCreate ==
    \E req \in Requests, new_id \in IncidentIds :
        /\ req.action = "create"
        /\ new_id \notin {r.id : r \in incidents}
        /\ inc_req' = req
        /\ inc_old' = {}
        /\ inc_view' = {}
        /\ IF Role(req.caller) # "admin" /\ req.published = 1
           THEN inc_resp' = Jerror("InvalidRequest") /\ UNCHANGED incidents
           ELSE IF ~req.wellformed
           THEN inc_resp' = Jerror("InvalidRequest") /\ UNCHANGED incidents
           ELSE /\ incidents' = InsertRow(incidents, req, new_id)
                /\ inc_resp' = Ok(new_id)
        /\ UNCHANGED noninc

\* action == "update"
PostUpdate ==
    \E req \in Requests :
        /\ req.action = "update"
        /\ inc_req' = req
        /\ inc_old' = IF req.has_id THEN {r \in incidents : r.id = req.id} ELSE {}
        /\ inc_view' = {}
        /\ IF ~req.has_id
           THEN inc_resp' = Jerror("InvalidRequest") /\ UNCHANGED incidents
           ELSE IF Role(req.caller) # "admin"
                   /\ user_cannot_update(incidents, req.id, req.caller)
           THEN inc_resp' = Jerror("OwnershipPermissionError") /\ UNCHANGED incidents
           ELSE IF Role(req.caller) # "admin" /\ req.published = 1
           THEN inc_resp' = Jerror("InvalidRequest") /\ UNCHANGED incidents
           ELSE IF ~req.wellformed
           THEN inc_resp' = Jerror("InvalidRequest") /\ UNCHANGED incidents
           ELSE /\ incidents' = InsertRow(incidents, req, req.id)
                /\ inc_resp' = Ok(req.id)
        /\ UNCHANGED noninc

\* action == "delete"
PostDelete ==
    \E req \in Requests :
        /\ req.action = "delete"
        /\ inc_req' = req
        /\ inc_old' = IF req.has_id THEN {r \in incidents : r.id = req.id} ELSE {}
        /\ inc_view' = {}
        /\ IF ~req.has_id
           THEN inc_resp' = Jerror("InvalidRequest") /\ UNCHANGED incidents
           ELSE IF Role(req.caller) # "admin"
                   /\ user_cannot_update(incidents, req.id, req.caller)
           THEN inc_resp' = Jerror("OwnershipPermissionError") /\ UNCHANGED incidents
           ELSE /\ incidents' = DeleteRows(incidents, req.id)
                /\ inc_resp' = Ok(0)
        /\ UNCHANGED noninc

\* search_list_incidents (lines 49-99)
SearchList ==
    \E req \in ReadRequests :
        /\ req.action = "search"
        /\ inc_req' = req
        /\ inc_old' = {}
        /\ inc_view' = IF req.only_mine /\ req.caller = NoAccount THEN {}
                       ELSE SearchRows(incidents, req.caller, req.only_mine)
        /\ inc_resp' = Ok(0)
        /\ UNCHANGED incidents
        /\ UNCHANGED noninc

\* show_incident (lines 102-143): LIMIT 1 keeps one of the rows found
ShowIncident ==
    \E req \in ReadRequests :
        /\ req.action = "show"
        /\ inc_req' = req
        /\ inc_old' = {}
        /\ LET rows == ShowRows(incidents, req.caller, req.id)
           IN IF rows = {}
              THEN inc_view' = {} /\ inc_resp' = Jerror("Not found")
              ELSE \E v \in rows : inc_view' = {v} /\ inc_resp' = Ok(0)
        /\ UNCHANGED incidents
        /\ UNCHANGED noninc

NextInc ==
    \/ PostOther
    \/ PostCreate
    \/ PostUpdate
    \/ PostDelete
    \/ SearchList
    \/ ShowIncident

SpecInc == InitInc /\ [][NextInc]_vars

----------------------------------------------------------------------------
(* One resolution as a function of its locals and of the shared sources *)

ConcNow == {DT(2021, 1, 24, 21, 30, 0), DT(2021, 1, 24, 22, 1, 0)}

ConcEnvs ==
    [spool : {[st |-> "absent", post |-> NoPost], [st |-> "post", post |-> POST_JSON]},
     peers : [1..NumPeers -> {[st |-> "404", post |-> NoPost],
                              [st |-> "post", post |-> POST_JSON]}],
     index : {[up |-> TRUE, fastpath |-> {}, jsonl |-> {}],
              [up |-> TRUE, fastpath |-> {FP(UID_FRESH, RID_NEW, EMPTY)},
               jsonl |-> {JL(RID_NEW, EMPTY, 0)}]},
     archive : {[readable |-> FALSE, lines |-> << >>],
                [readable |-> TRUE, lines |-> <<LineOf(0)>>]}]

\* lines 307-336 for report_id RID_NEW and the clock reading n
Classified(uid, n) ==
    LET nf == CountUnderscore(RID_NEW) = 5 /\ Truthy(uid)
        ord == IF ~nf THEN LegacyOrder
               ELSE IF StrGT(uid, Strftime(MinusOneHour(n)))
               THEN FreshOrder ELSE ArchivedOrder
    IN Local(uid, n, "probe", ord, 1, 0, 0, NONE, "pending", "")

\* a probe raised: the exception leaves _fetch_measurement_body
LEscape(l, e) == [l EXCEPT !.pc = "done", !.outcome = e]

\* a probe returned v: "or" keeps a truthy value, else the next operand
LYield(l, v) ==
    IF Truthy(v) \/ l.pos = Len(l.order)
    THEN [l EXCEPT !.pc = "return", !.body = v]
    ELSE [l EXCEPT !.pc = "probe", !.body = v, !.pos = l.pos + 1]

LAdvance(l, r) == IF r.kind = "raise" THEN LEscape(l, r.val[1]) ELSE LYield(l, r.val)

SpoolAfterRead_Consumes(file) == [st |-> "absent", post |-> NoPost]

\* lines 237-238: the spool file is opened for reading and stays as it is
SpoolAfterRead(file) == file

\* one step of a resolution with locals l on the sources env
PStep(env, l) ==
    CASE l.pc = "probe" /\ l.order[l.pos] = "disk" ->
            LET p == DiskPath(l.uid)
            IN IF p.exc # ""
               THEN [l |-> LAdvance(l, Raise(p.exc)), env |-> env]
               ELSE [l |-> LAdvance(l, DiskBody(env.spool)),
                     env |-> [env EXCEPT !.spool = SpoolAfterRead(env.spool)]]
      [] l.pc = "probe" /\ l.order[l.pos] = "hosts" ->
            IF HostsPath(l.uid).exc # ""
            THEN [l |-> LYield(l, NONE), env |-> env]
            ELSE [l |-> [l EXCEPT !.pc = "hosts", !.host_i = 1], env |-> env]
      [] l.pc = "hosts" ->
            IF l.host_i > NumPeers
            THEN [l |-> LYield(l, NONE), env |-> env]
            ELSE LET a == HostAnswer(env.peers[l.host_i])
                 IN IF a.next
                    THEN [l |-> [l EXCEPT !.host_i = l.host_i + 1], env |-> env]
                    ELSE [l |-> LYield(l, a.val), env |-> env]
      [] l.pc = "probe" /\ l.order[l.pos] = "click" ->
            LET byuid == LocateByUid(l.uid)
                rows == IF byuid THEN UidRows(env.index, l.uid)
                        ELSE RidRows(env.index, RID_NEW, InputOrEmpty(NONE))
            IN IF ~env.index.up
               THEN [l |-> IF byuid THEN LEscape(l, "OperationalError")
                           ELSE LYield(l, NONE),
                     env |-> env]
               ELSE IF rows = {}
               THEN [l |-> LYield(l, NONE), env |-> env]
               ELSE [l |-> [l EXCEPT !.pc = "s3",
                                     !.linenum = (CHOOSE r \in rows : TRUE).linenum],
                     env |-> env]
      [] l.pc = "s3" ->
            LET r == _fetch_jsonl_measurement_body_from_s3(env.archive, l.linenum)
            IN [l |-> LYield(l, IF r.kind = "raise" THEN NONE ELSE r.val), env |-> env]
      [] l.pc = "return" ->
            [l |-> [l EXCEPT !.pc = "done",
                             !.outcome = IF Truthy(l.body) THEN "body"
                                         ELSE "MsmtNotFound"],
             env |-> env]

\* the resolution run from l to its end with nothing else running
RECURSIVE SoloRun(_, _)
SoloRun(env, l) ==
    IF l.pc = "done" THEN l
    ELSE LET st == PStep(env, l) IN SoloRun(st.env, st.l)

----------------------------------------------------------------------------
(* NumProcs resolutions interleaved step by step on the same sources *)

InitConc ==
    /\ ChainIdle
    /\ PageIdle
    /\ MetaIdle
    /\ S3Idle
    /\ IncIdle
    /\ conc_env \in ConcEnvs
    /\ conc_env0 = conc_env
    /\ conc_proc \in [Procs -> {Unstarted(uid) : uid \in {UID_FRESH, NONE}}]

\* lines 307-336 in resolution p: the clock is read only for the new format
ConcClassify(p) ==
    /\ conc_proc[p].pc = "start"
    /\ LET uid == conc_proc[p].uid
       IN IF CountUnderscore(RID_NEW) = 5 /\ Truthy(uid)
          THEN \E n \in ConcNow :
                 conc_proc' = [conc_proc EXCEPT ![p] = Classified(uid, n)]
          ELSE conc_proc' = [conc_proc EXCEPT ![p] = Classified(uid, NoTime)]
    /\ UNCHANGED <<conc_env, conc_env0>>
    /\ UNCHANGED nonconc

\* resolution p makes its next file open, request, query, read or return
ConcStep(p) ==
    /\ conc_proc[p].pc \in {"probe", "hosts", "s3", "return"}
    /\ LET st == PStep(conc_env, conc_proc[p])
       IN /\ conc_proc' = [conc_proc EXCEPT ![p] = st.l]
          /\ conc_env' = st.env
    /\ UNCHANGED conc_env0
    /\ UNCHANGED nonconc

\* the client of resolution p went away before its next step
ConcAbandon(p) ==
    /\ conc_proc[p].pc \in {"start", "probe", "hosts", "s3", "return"}
    /\ conc_proc' = [conc_proc EXCEPT
                       ![p] = Abandoned(conc_proc[p].uid, conc_proc[p].pc)]
    /\ UNCHANGED <<conc_env, conc_env0>>
    /\ UNCHANGED nonconc

NextConc ==
    \/ \E p \in Procs : ConcClassify(p)
    \/ \E p \in Procs : ConcStep(p)
    \/ \E p \in Procs : ConcAbandon(p)

SpecConc == InitConc /\ [][NextConc]_vars

----------------------------------------------------------------------------
(* The same request resolved under both orders: every resolution asks for   *)
(* UID_FRESH on the same sources, which may also fail, and the clock        *)
(* reading of each decides its order.                                       *)

OrderEnvs ==
    [spool : {[st |-> "absent", post |-> NoPost],
              [st |-> "unreadable", post |-> NoPost],
              [st |-> "post", post |-> POST_JSON]},
     peers : [1..NumPeers -> {[st |-> "404", post |-> NoPost],
                              [st |-> "post", post |-> POST_JSON]}],
     index : {[up |-> TRUE, fastpath |-> {}, jsonl |-> {}],
              [up |-> FALSE, fastpath |-> {}, jsonl |-> {}],
              [up |-> TRUE, fastpath |-> {FP(UID_FRESH, RID_NEW, EMPTY)},
               jsonl |-> {JL(RID_NEW, EMPTY, 0)}]},
     archive : {[readable |-> FALSE, lines |-> << >>],
                [readable |-> TRUE, lines |-> <<LineOf(0)>>]}]

InitOrder ==
    /\ ChainIdle
    /\ PageIdle
    /\ MetaIdle
    /\ S3Idle
    /\ IncIdle
    /\ conc_env \in OrderEnvs
    /\ conc_env0 = conc_env
    /\ conc_proc = [p \in Procs |-> Unstarted(UID_FRESH)]

NextOrder ==
    \/ \E p \in Procs : ConcClassify(p)
    \/ \E p \in Procs : ConcStep(p)

SpecOrder == InitOrder /\ [][NextOrder]_vars

----------------------------------------------------------------------------
(* A client of list_measurements: a first request, then next_url as long    *)
(* as there is one.                                                         *)

InitPage ==
    /\ ChainIdle
    /\ S3Idle
    /\ IncIdle
    /\ ConcIdle
    /\ MetaIdle
    /\ pg_total \in 0..MaxRows
    /\ pg_resp = NoPage
    /\ pg_seen = << >>

\* a request with offset >= 0 and limit >= 1
ListFirst ==
    \E offset \in 0..(MaxRows + 1), limit \in 1..MaxLimit :
        /\ pg_resp' = list_measurements(pg_total, offset, limit)
        /\ pg_seen' = pg_resp'.results
        /\ UNCHANGED pg_total
        /\ UNCHANGED nonpage

\* the request of next_url
ListNext ==
    /\ pg_resp.next_url.has
    /\ pg_resp' = list_measurements(pg_total, pg_resp.next_url.offset,
                                    pg_resp.next_url.limit)
    /\ pg_seen' = pg_seen \o pg_resp'.results
    /\ UNCHANGED pg_total
    /\ UNCHANGED nonpage

NextPage ==
    \/ ListFirst
    \/ ListNext

SpecPage == InitPage /\ [][NextPage]_vars

----------------------------------------------------------------------------
(* The endpoints that serve the body of one measurement: get_measurement,   *)
(* get_raw_measurement and get_measurement_meta.  meta_fastpath is the      *)
(* fastpath table with its probe_asn column; the index of meta_env has the  *)
(* same rows.                                                               *)

MetaRow(uid, rid, inp, asn) ==
    [uid |-> uid, rid |-> rid, inp |-> inp, probe_asn |-> asn]

\* the empty dict returned for "not found" and for "unwanted"
NoMeta == MetaRow(NONE, EMPTY, EMPTY, 0)

MetaTables ==
    { {},
      {MetaRow(UID_FRESH, RID_NEW, EMPTY, 0)},
      {MetaRow(UID_FRESH, RID_NEW, EMPTY, 30722)},
      {MetaRow(UID_FRESH, RID_NEW, EMPTY, 0), MetaRow(UID_OLD, RID_NEW, EMPTY, 30722)} }

MetaEnvs(table) ==
    [spool : {[st |-> "absent", post |-> NoPost], [st |-> "post", post |-> POST_JSON]},
     peers : [1..NumPeers -> {[st |-> "404", post |-> NoPost],
                              [st |-> "post", post |-> POST_JSON]}],
     index : {[up |-> TRUE,
               fastpath |-> {FP(r.uid, r.rid, r.inp) : r \in table},
               jsonl |-> j] : j \in {{}, {JL(RID_NEW, EMPTY, 0)}}},
     archive : {[readable |-> FALSE, lines |-> << >>],
                [readable |-> TRUE, lines |-> <<LineOf(0)>>]}]

MetaRequests ==
    {[endpoint |-> "measurement", has_uid |-> TRUE, uid |-> u, full |-> FALSE,
      now |-> NoTime] : u \in {UID_FRESH, UID_OLD}}
    \cup {[endpoint |-> e, has_uid |-> TRUE, uid |-> u, full |-> f, now |-> n] :
            e \in {"raw_measurement", "measurement_meta"},
            u \in {UID_FRESH, UID_OLD}, f \in BOOLEAN, n \in ConcNow}
    \cup {[endpoint |-> e, has_uid |-> FALSE, uid |-> NONE, full |-> f, now |-> n] :
            e \in {"raw_measurement", "measurement_meta"},
            f \in BOOLEAN, n \in ConcNow}

MetaResponse(status, body_, probed) ==
    [status |-> status, body |-> body_, probed |-> probed]

Unwanted_Served(r) == r

\* lines 432-435 and 454-457: a row with probe_asn 0 gives the empty dict
Unwanted(r) == IF r.probe_asn = 0 THEN NoMeta ELSE r

\* _get_measurement_meta_by_uid: what the query and LIMIT 1 can give
_get_measurement_meta_by_uid(table, uid) ==
    LET rows == {r \in table : r.uid = uid}
    IN IF rows = {} THEN {NoMeta} ELSE {Unwanted(r) : r \in rows}

\* _get_measurement_meta_clickhouse for input None: input = ''
_get_measurement_meta_clickhouse(table, rid) ==
    LET rows == {r \in table : r.rid = rid /\ r.inp = EMPTY}
    IN IF rows = {} THEN {NoMeta} ELSE {Unwanted(r) : r \in rows}

\* lines 380-387 and 556-564: by measurement_uid when the parameter is
\* there, else by report_id and input
MetaFor(table, req) ==
    IF req.has_uid THEN _get_measurement_meta_by_uid(table, req.uid)
    ELSE _get_measurement_meta_clickhouse(table, RID_NEW)

\* _fetch_measurement_body for the measurement of msmt_meta, run to its end
FetchBody(env, msmt_meta, n) == SoloRun(env, Classified(msmt_meta.uid, n))

InitMeta ==
    /\ ChainIdle
    /\ S3Idle
    /\ IncIdle
    /\ ConcIdle
    /\ PageIdle
    /\ meta_fastpath \in MetaTables
    /\ meta_env \in MetaEnvs(meta_fastpath)
    /\ meta_req = NoMetaRequest
    /\ meta_resp = NoMetaResponse

\* get_measurement (lines 101-142)
GetMeasurement ==
    \E req \in MetaRequests :
        /\ req.endpoint = "measurement"
        /\ meta_req' = req
        /\ LET rows == UidRows(meta_env.index, req.uid)
           IN IF rows = {}
              THEN meta_resp' = MetaResponse("error", NONE, FALSE)
              ELSE \E row \in rows :
                     LET r == _fetch_jsonl_measurement_body_from_s3(
                                  meta_env.archive, row.linenum)
                     IN meta_resp' = IF r.kind = "raise"
                                     THEN MetaResponse("error", NONE, TRUE)
                                     ELSE MetaResponse("body", r.val, TRUE)
        /\ UNCHANGED <<meta_fastpath, meta_env>>
        /\ UNCHANGED nonmeta

\* get_raw_measurement (lines 355-397)
GetRawMeasurement ==
    \E req \in MetaRequests :
        /\ req.endpoint = "raw_measurement"
        /\ ~req.full
        /\ meta_req' = req
        /\ \E msmt_meta \in MetaFor(meta_fastpath, req) :
             IF msmt_meta # NoMeta
             THEN LET l == FetchBody(meta_env, msmt_meta, req.now)
                  IN meta_resp' = IF l.outcome = "body"
                                  THEN MetaResponse("body", l.body, TRUE)
                                  ELSE MetaResponse("error", NONE, TRUE)
             ELSE meta_resp' = MetaResponse("empty", NONE, FALSE)
        /\ UNCHANGED <<meta_fastpath, meta_env>>
        /\ UNCHANGED nonmeta

\* get_measurement_meta (lines 468-572)
GetMeasurementMeta ==
    \E req \in MetaRequests :
        /\ req.endpoint = "measurement_meta"
        /\ meta_req' = req
        /\ \E msmt_meta \in MetaFor(meta_fastpath, req) :
             IF ~req.full \/ msmt_meta = NoMeta
             THEN meta_resp' = MetaResponse("meta", NONE, FALSE)
             ELSE LET l == FetchBody(meta_env, msmt_meta, req.now)
                  IN meta_resp' = IF l.outcome = "body"
                                  THEN MetaResponse("meta", l.body, TRUE)
                                  ELSE MetaResponse("meta", NONE, TRUE)
        /\ UNCHANGED <<meta_fastpath, meta_env>>
        /\ UNCHANGED nonmeta

NextMeta ==
    \/ GetMeasurement
    \/ GetRawMeasurement
    \/ GetMeasurementMeta

SpecMeta == InitMeta /\ [][NextMeta]_vars

----------------------------------------------------------------------------
(* Vocabulary of the properties *)

\* the source an I/O event belongs to
SrcOf(op) ==
    CASE op = "open" -> "disk"
      [] op = "GET" -> "hosts"
      [] op \in {"uid_lookup", "rid_lookup", "s3"} -> "click"

PosIn(seq, x) == CHOOSE i \in 1..Len(seq) : seq[i] = x

NotPresent(r) == r.kind = "ret" /\ ~Truthy(r.val)

IoOf(op) == {k \in 1..Len(io) : io[k].op = op}

\* the probes made so far follow the order "expected", each source touched
\* only after all sources before it answered not-present, peers in list order,
\* and a returned body is the value of the last probe made
ChainRespects(expected) ==
    /\ Len(calls) <= Len(expected)
    /\ \A i \in 1..Len(calls) : calls[i].src = expected[i]
    /\ \A i \in 1..(Len(calls) - 1) : NotPresent(calls[i].res)
    /\ \A k \in 1..Len(io) :
         LET p == PosIn(expected, SrcOf(io[k].op))
         IN /\ p <= Len(calls) + 1
            /\ \A j \in 1..(p - 1) : NotPresent(calls[j].res)
    /\ \A k \in IoOf("GET") : io[k].host = Cardinality({m \in IoOf("GET") : m <= k})
    /\ outcome = "body" =>
         /\ calls # << >>
         /\ Truthy(calls[Len(calls)].res.val)
         /\ body = calls[Len(calls)].res.val

----------------------------------------------------------------------------
\* C1: for a request classified Fresh the sources are probed in the order
\* spool, peers (in configured order), archive; a source is touched only after
\* every earlier one answered not-present, and the first body returned is the
\* result, with no later source touched.
C1_FreshOrder ==
    (pc # "start" /\ new_format /\ fresh) =>
        ChainRespects(<<"disk", "hosts", "click">>)

\* a Fresh request answered by the archive after the spool and all peers missed
C1_Witness ==
    /\ new_format /\ fresh /\ outcome = "body"
    /\ Len(calls) = 3
    /\ Cardinality(IoOf("open")) = 1
    /\ Cardinality(IoOf("GET")) = NumPeers
    /\ io[Len(io)].op = "s3"

\* C2: for a request classified Archived the sources are probed in the order
\* archive, spool, peers; the first body returned is the result and no source
\* after it in that order is touched.
C2_ArchivedOrder ==
    (pc # "start" /\ new_format /\ ~fresh) =>
        ChainRespects(<<"click", "disk", "hosts">>)

\* an Archived request answered by the last peer after archive and spool missed
C2_Witness ==
    /\ new_format /\ ~fresh /\ outcome = "body"
    /\ Len(calls) = 3
    /\ io[1].op = "uid_lookup"
    /\ Cardinality(IoOf("open")) = 1
    /\ Cardinality(IoOf("GET")) = NumPeers

\* C3: when no source returns a body the call ends with MsmtNotFound and with
\* nothing else: no other exception escapes _fetch_measurement_body.
C3_OnlyNotFoundEscapes ==
    pc = "done" =>
        /\ outcome \in {"body", "MsmtNotFound"}
        /\ (\A i \in 1..Len(calls) : ~Truthy(calls[i].res.val)) => outcome = "MsmtNotFound"

\* the failures the claim calls transport errors or timeouts
TransportFailures == {"unreadable", "timeout", "down"}

\* C4: a source failing with a transport error or timeout does not abort the
\* resolution: the call still ends with a body or with MsmtNotFound, and it
\* gives up only after every source of the chain has been probed.
C4_TransportErrorContinues ==
    (pc = "done" /\ \E k \in 1..Len(io) : io[k].st \in TransportFailures) =>
        /\ outcome \in {"body", "MsmtNotFound"}
        /\ outcome = "MsmtNotFound" => Len(calls) = Len(order)

\* the structural checks of the claim: four fields, integer hour prefix
Malformed(uid) ==
    LET f == Split(uid)
    IN Len(f) # 4 \/ ~IsInt(Slice(f[1], 10))

\* C5: a measurement_uid without exactly four underscore-delimited fields, or
\* whose first ten timestamp characters are not an integer, is rejected by the
\* spool probe and by the peer probe before any path is built: no file is
\* opened and no peer request is sent.
C5_MalformedRejected ==
    (measurement_uid # NONE /\ Malformed(measurement_uid)) =>
        /\ IoOf("open") = {}
        /\ IoOf("GET") = {}
        /\ path = EMPTY
        /\ pc # "hosts"
        /\ \A i \in 1..Len(calls) :
             /\ calls[i].src = "disk" => calls[i].res.kind = "raise"
             /\ calls[i].src = "hosts" => calls[i].res = Ret(NONE)

\* the peer probe gave up on a malformed identifier without any request
C5_Witness ==
    /\ measurement_uid # NONE
    /\ Malformed(measurement_uid)
    /\ StartsWith20(measurement_uid)
    /\ Len(calls) = 1
    /\ calls[1].src = "hosts"
    /\ calls[1].res = Ret(NONE)
    /\ io = << >>

\* C6: a malformed measurement_uid met by the spool or peer probe only makes
\* that probe count as not-present: no malformed-identifier error leaves
\* _fetch_measurement_body.
C6_MalformedAbsorbed ==
    (measurement_uid # NONE /\ Malformed(measurement_uid)) =>
        /\ outcome \notin {"ValueError", "AssertionError"}
        /\ \A i \in 1..Len(calls) :
             calls[i].src \in {"disk", "hosts"} => NotPresent(calls[i].res)

\* a peer answer or spool file that is a wrapper with format "json"
JsonWrapper(e) ==
    /\ e.st = "post"
    /\ "format" \in DOMAIN e.post
    /\ e.post["format"] = "json"

LastIo(op) == io[CHOOSE k \in IoOf(op) : \A m \in IoOf(op) : m <= k]

\* C7: the peer probe queries the configured peers in configured order; a 404,
\* any other non-200 status and a transport error each move it on to the next
\* peer; the first 200 with a valid wrapper ends the loop with that body and no
\* later peer is queried; with every peer not-present the result is None and
\* never an error.
C7_PeersInOrder ==
    /\ \A k \in IoOf("GET") : io[k].host = Cardinality({m \in IoOf("GET") : m <= k})
    /\ \A k, m \in IoOf("GET") : k < m => ~JsonWrapper(io[k])
    /\ Cardinality(IoOf("GET")) <= NumPeers
    /\ pc = "hosts" =>
         /\ Cardinality(IoOf("GET")) = host_i - 1
         /\ \A k \in IoOf("GET") : ~JsonWrapper(io[k])
    /\ \A i \in 1..Len(calls) : calls[i].src = "hosts" =>
         /\ calls[i].res.kind = "ret"
         /\ IF Truthy(calls[i].res.val)
            THEN IoOf("GET") # {} /\ JsonWrapper(LastIo("GET"))
            ELSE /\ calls[i].res.val = NONE
                 /\ \A k \in IoOf("GET") : ~JsonWrapper(io[k])
                 /\ Cardinality(IoOf("GET")) = NumPeers
                      \/ (IoOf("GET") = {} /\ HostsPath(measurement_uid).exc # "")

\* the last peer answered with the body after a 500 from the first peer
C7_Witness ==
    /\ Len(calls) = 1
    /\ calls[1].src = "hosts"
    /\ Truthy(calls[1].res.val)
    /\ Cardinality(IoOf("GET")) = NumPeers
    /\ io[1].st = "500"
    /\ io[Len(io)].host = NumPeers

\* C8: a body produced by the spool probe or the peer probe is the content
\* payload of the wrapper it read, and only a wrapper whose format is "json"
\* yields a body.
C8_BodyIsJsonContent ==
    \A i \in 1..Len(calls) :
        (calls[i].src \in {"disk", "hosts"} /\ calls[i].res.kind = "ret"
            /\ calls[i].res.val # NONE) =>
        LET e == LastIo(IF calls[i].src = "disk" THEN "open" ELSE "GET")
        IN /\ JsonWrapper(e)
           /\ "content" \in DOMAIN e.post =>
                calls[i].res.val = DumpsEncode(e.post["content"])

\* a peer returned the content of a json wrapper after another peer had
\* answered with a wrapper of another format
C8_Witness ==
    /\ Len(calls) = 1
    /\ calls[1].src = "hosts"
    /\ calls[1].res = Ret(DumpsEncode("dict_a"))
    /\ Len(io) = 2
    /\ io[1].st = "post" /\ ~JsonWrapper(io[1])
    /\ io[2].post = POST_JSON

\* <first 10 timestamp characters>_<country code>_<test name>/<uid>.post
ExpectedRelPath(uid) ==
    LET f == Split(uid)
    IN Slice(f[1], 10) \o <<"_">> \o f[2] \o <<"_">> \o f[3] \o <<"/">>
       \o uid \o <<".", "p", "o", "s", "t">>

\* C9: for a well-formed measurement_uid the relative path requested from each
\* peer equals the relative path looked up in the spool:
\* <first 10 timestamp digits>_<country code>_<test name>/<uid>.post
C9_SamePath ==
    /\ \A k \in IoOf("open") \cup IoOf("GET") :
         io[k].rel = ExpectedRelPath(measurement_uid)
    /\ \A k \in IoOf("open") : \A m \in IoOf("GET") : io[k].rel = io[m].rel

\* spool and every peer were asked for a uid with a 14-digit timestamp
C9_Witness ==
    /\ Len(Split(measurement_uid)[1]) > 10
    /\ Cardinality(IoOf("open")) = 1
    /\ Cardinality(IoOf("GET")) = NumPeers

\* the index holds a jsonl row matching the identifier of the request
IndexHasRow ==
    IF measurement_uid # NONE
    THEN \E f \in index.fastpath : \E j \in index.jsonl :
            f.uid = measurement_uid /\ j.rid = f.rid /\ j.inp = f.inp
    ELSE \E j \in index.jsonl :
            /\ j.rid = report_id
            /\ j.inp = (IF input \in {NONE, EMPTY} THEN EMPTY ELSE input)

Lookups == IoOf("uid_lookup") \cup IoOf("rid_lookup")

\* C10: locating the archive coordinates succeeds exactly when the index holds
\* a matching row; when none matches the archive probe reports not-present and
\* the container is never read.
C10_NoRowNoRead ==
    index.up =>
        /\ \A k \in Lookups : (io[k].st = "row") <=> IndexHasRow
        /\ \A k \in Lookups : io[k].st \in {"row", "norow"}
        /\ (pc = "s3" \/ IoOf("s3") # {}) => IndexHasRow
        /\ (Lookups # {} /\ ~IndexHasRow) =>
             \E i \in 1..Len(calls) :
                calls[i].src = "click" /\ calls[i].res = Ret(NONE)

\* a uid known to fastpath whose (report_id, input) has no jsonl row although
\* the jsonl table holds other rows
C10_Witness ==
    /\ index.up
    /\ IoOf("uid_lookup") # {}
    /\ ~IndexHasRow
    /\ index.jsonl # {}
    /\ \E f \in index.fastpath : f.uid = measurement_uid
    /\ pc = "done"
    /\ IoOf("s3") = {}

\* the jsonl rows of (report_id, "")
RowsOfEmptyInput == {j \in index.jsonl : j.rid = report_id /\ j.inp = EMPTY}

\* C11: located by (report_id, input), a null input is matched against the
\* index as the empty string: the query carries "" and its outcome is that of
\* locating (report_id, ""), the same coordinates or the same not-indexed.
C11_NullInputAsEmpty ==
    (measurement_uid = NONE /\ input = NONE) =>
        \A k \in IoOf("rid_lookup") :
            /\ io[k].rel = report_id \o <<" ">>
            /\ index.up =>
                 /\ (io[k].st = "row") <=> (RowsOfEmptyInput # {})
                 /\ io[k].st = "row" =>
                      \E j \in RowsOfEmptyInput :
                          s3loc = [s3path |-> j.s3path, linenum |-> j.linenum]

\* a request with null input answered from the row stored under ""
C11_Witness ==
    /\ measurement_uid = NONE
    /\ input = NONE
    /\ IoOf("rid_lookup") # {}
    /\ io[1].st = "row"
    /\ outcome = "body"

\* C12: one identifier form per archive lookup: the index is queried by
\* measurement_uid or by (report_id, input), never by both in one resolution,
\* and by (report_id, input) exactly when measurement_uid is None.
C12_OneIdentifierForm ==
    /\ ~(IoOf("uid_lookup") # {} /\ IoOf("rid_lookup") # {})
    /\ Lookups # {} => ((IoOf("rid_lookup") # {}) <=> (measurement_uid = NONE))
    /\ \A k \in IoOf("uid_lookup") : io[k].rel = measurement_uid
    /\ \A i \in 1..Len(calls) : calls[i].src = "click" => Lookups # {}

\* a request without measurement_uid located by (report_id, input) alone
C12_Witness ==
    /\ measurement_uid = NONE
    /\ IoOf("rid_lookup") # {}
    /\ IoOf("uid_lookup") = {}
    /\ pc = "done"

\* C16: no source is retried within one resolution: at most one spool open,
\* one request per peer, one index lookup and one container read.
C16_NoRetry ==
    /\ Cardinality(IoOf("open")) <= 1
    /\ \A h \in 1..NumPeers : Cardinality({k \in IoOf("GET") : io[k].host = h}) <= 1
    /\ \A k \in IoOf("GET") : io[k].host \in 1..NumPeers
    /\ Cardinality(Lookups) <= 1
    /\ Cardinality(IoOf("s3")) <= 1
    /\ Len(calls) <= 3
    /\ \A i, j \in 1..Len(calls) : i # j => calls[i].src # calls[j].src

\* every source was probed, each once, and none held the body
C16_Witness ==
    /\ outcome = "MsmtNotFound"
    /\ Len(calls) = 3
    /\ Cardinality(IoOf("open")) = 1
    /\ Cardinality(IoOf("GET")) = NumPeers
    /\ Cardinality(Lookups) = 1
    /\ Cardinality(IoOf("s3")) = 1

\* the measurement_uid starts with a 14-digit timestamp field
HasTimestamp14(uid) ==
    /\ uid # NONE
    /\ Len(Split(uid)[1]) = 14
    /\ IsInt(Split(uid)[1])

DigitVal(c) == Ord(c) - 2

\* the datetime written in the first 14 characters of the uid
UidTime(uid) ==
    LET v(i) == DigitVal(uid[i])
    IN DT(v(1) * 1000 + v(2) * 100 + v(3) * 10 + v(4), v(5) * 10 + v(6),
          v(7) * 10 + v(8), v(9) * 10 + v(10), v(11) * 10 + v(12),
          v(13) * 10 + v(14))

\* a is not later than b
DtLE(a, b) ==
    LET ka == <<a.Y, a.M, a.D, a.h, a.m, a.s>>
        kb == <<b.Y, b.M, b.D, b.h, b.m, b.s>>
    IN \/ ka = kb
       \/ \E i \in 1..6 : ka[i] < kb[i] /\ \A j \in 1..(i - 1) : ka[j] = kb[j]

\* C17 as stated: a measurement_uid is classified Fresh exactly when its
\* embedded 14-digit UTC timestamp lies within the last hour before the
\* current time, and Archived otherwise.
C17_FreshIffWithinLastHour ==
    (pc # "start" /\ new_format /\ HasTimestamp14(measurement_uid)) =>
        (fresh <=> /\ DtLE(MinusOneHour(now), UidTime(measurement_uid))
                   /\ DtLE(UidTime(measurement_uid), now))

\* C17 amended: with a five-underscore report_id, a uid carrying a 14-digit
\* timestamp is Fresh exactly when the timestamp is not earlier than the start
\* of the minute one hour before the current time, with no upper limit;
\* without such a report_id nothing is classified Fresh; the classification is
\* made once, from one reading of the clock.
C17_FreshIffNotBeforeMinute ==
    /\ (pc # "start" /\ new_format /\ HasTimestamp14(measurement_uid)) =>
         (fresh <=> DtLE([MinusOneHour(now) EXCEPT !.s = 0], UidTime(measurement_uid)))
    /\ ~new_format => (~fresh /\ now = NoTime)
    /\ (pc # "start" /\ new_format) => (now \in NowValues /\ Len(ts) = 12)

\* a uid stamped more than one hour before the clock reading, yet Fresh
C17_Witness ==
    /\ new_format /\ fresh
    /\ HasTimestamp14(measurement_uid)
    /\ ~DtLE(MinusOneHour(now), UidTime(measurement_uid))
    /\ pc = "done"

\* C18: a request with no measurement_uid is never classified Fresh: neither
\* the spool nor any peer is probed before the archive.
C18_NoUidNeverFresh ==
    ~Truthy(measurement_uid) =>
        /\ ~fresh
        /\ ~new_format
        /\ pc # "start" => order = <<"click">>
        /\ IoOf("open") = {} /\ IoOf("GET") = {}
        /\ \A i \in 1..Len(calls) : calls[i].src = "click"

\* a five-underscore report_id without measurement_uid went to the archive only
C18_Witness ==
    /\ measurement_uid = NONE
    /\ CountUnderscore(report_id) = 5
    /\ IoOf("rid_lookup") # {}
    /\ pc = "done"

----------------------------------------------------------------------------
(* Extraction of one record from a container *)

S3Stream == Decompress(s3_src.frames)

\* record n is stored whole: the coordinates are valid
Complete(n) == n < MaxLines /\ EndOff(n) <= Len(S3Stream)

\* offset at which frame i ends in the decompressed stream
FrameEnd(i) == Len(Concat(SubSeq(s3_src.frames, 1, i)))

C14_TruncatedIsError ==
    (s3_pc = "done" /\ s3_src.reachable /\ ~Complete(s3_linenum)) =>
        s3_ret.kind = "raise"

----------------------------------------------------------------------------
(* Incident ownership *)

\* the stored rows of an id that is not deleted
StoredRows(table, id) == {r \in table : r.id = id /\ r.deleted # 1}

\* C20: an update or delete by a non-admin of a stored, non-deleted incident
\* created by another account is rejected with an ownership error and leaves
\* the table as it was.
C20_OthersIncidentRejected ==
    [][ ( /\ inc_req'.action \in {"update", "delete"}
          /\ inc_req'.has_id
          /\ Role(inc_req'.caller) # "admin"
          /\ \E r \in StoredRows(incidents, inc_req'.id) :
                 r.creator_account_id # inc_req'.caller )
        => ( /\ inc_resp' = [status |-> "error",
                             error |-> "OwnershipPermissionError", id |-> 0]
             /\ incidents' = incidents ) ]_vars

\* a user's delete of another user's incident was refused, the row is still there
C20_Witness ==
    /\ inc_req.action = "delete"
    /\ inc_req.has_id
    /\ Role(inc_req.caller) = "user"
    /\ inc_resp.error = "OwnershipPermissionError"
    /\ \E r \in StoredRows(incidents, inc_req.id) :
          /\ r.creator_account_id # inc_req.caller
          /\ Role(r.creator_account_id) = "user"

----------------------------------------------------------------------------
(* Concurrent resolutions *)

C21_AdminNotRefused ==
    [][ ( /\ inc_req'.action \in {"update", "delete"}
          /\ inc_req'.has_id
          /\ inc_req'.wellformed
          /\ inc_req'.caller = "admin1"
          /\ StoredRows(incidents, inc_req'.id) # {} )
        => ( /\ inc_resp'.error # "OwnershipPermissionError"
             /\ inc_resp'.status = "ok"
             /\ inc_req'.action = "delete" =>
                  StoredRows(incidents', inc_req'.id) = {}
             /\ inc_req'.action = "update" =>
                  \A r \in StoredRows(incidents', inc_req'.id) :
                      /\ r.title = inc_req'.title
                      /\ r.published = inc_req'.published ) ]_vars

\* the admin has updated an incident that a user had created and published
C21_Witness ==
    /\ inc_req.action = "update"
    /\ inc_req.caller = "admin1"
    /\ inc_resp.status = "ok"
    /\ \E r \in inc_old :
          /\ r.creator_account_id \in {"user1", "user2"}
          /\ r.published # 0

\* C27: a successful update leaves the creator_account_id of the stored
\* incident as it was.
C27_UpdateKeepsCreator ==
    [][ (inc_req'.action = "update" /\ inc_resp'.status = "ok") =>
          \A old \in StoredRows(incidents, inc_req'.id) :
          \A new \in StoredRows(incidents', inc_req'.id) :
              new.creator_account_id = old.creator_account_id ]_vars

\* C28: every stored incident with a non-zero published value was last
\* written by an admin (the writer is the stored creator_account_id).
C28_OnlyAdminsPublish ==
    \A r \in incidents :
        r.published # 0 => r.creator_account_id = "admin1"

\* C29: a caller without account gets from search and show only incidents
\* stored with published = 1 and not deleted, none of them marked mine, and
\* nothing at all with only_mine.
C29_AnonymousView ==
    (inc_req.action \in {"search", "show"} /\ inc_req.caller = "None") =>
        /\ \A v \in inc_view :
              /\ ~v.mine
              /\ v.published
              /\ \E r \in incidents :
                    r.id = v.id /\ r.title = v.title
                    /\ r.published = 1 /\ r.deleted # 1
        /\ inc_req.only_mine => inc_view = {}

\* an anonymous search returned one incident while another, unpublished, is stored
C29_Witness ==
    /\ inc_req.action = "search"
    /\ inc_req.caller = "None"
    /\ ~inc_req.only_mine
    /\ inc_view # {}
    /\ \E r \in incidents : r.published = 0 /\ r.id \notin {v.id : v \in inc_view}

----------------------------------------------------------------------------
(* Freshness and outcome *)

\* C23: resolutions of the same request on the same sources end alike under
\* the Fresh and the Archived order: both with a body, or both with
\* MsmtNotFound.
C23_OrderKeepsOutcome ==
    \A p, q \in Procs :
        ( /\ conc_proc[p].pc = "done" /\ conc_proc[p].order = <<"disk", "hosts", "click">>
          /\ conc_proc[q].pc = "done" /\ conc_proc[q].order = <<"click", "disk", "hosts">> )
        => /\ conc_proc[p].outcome = "body" <=> conc_proc[q].outcome = "body"
           /\ conc_proc[p].outcome = "MsmtNotFound"
                <=> conc_proc[q].outcome = "MsmtNotFound"

----------------------------------------------------------------------------
(* Lookup by measurement_uid *)

\* C24: the coordinates found for a measurement_uid are those of the record
\* of that measurement, and the archive body returned for it is that record,
\* also when another measurement has the same report_id and input.
C24_OwnRecord ==
    (index = DUP_INDEX /\ measurement_uid \in {UID_FRESH, UID_OLD}) =>
        /\ pc = "s3" => s3loc.linenum = (IF measurement_uid = UID_FRESH THEN 0 ELSE 1)
        /\ \A i \in 1..Len(calls) :
              (calls[i].src = "click" /\ calls[i].res.kind = "ret"
               /\ calls[i].res.val # NONE) =>
                 calls[i].res.val =
                    <<"{", "n", (IF measurement_uid = UID_FRESH THEN "0" ELSE "1"),
                      "}", "\n">>

----------------------------------------------------------------------------
(* The legacy path *)

\* C25: with a report_id that has not exactly five underscores, or without a
\* measurement_uid, only the archive is probed: no spool file is opened, no
\* peer is asked, and a not-present answer of the archive ends in MsmtNotFound.
C25_ArchiveOnly ==
    (CountUnderscore(report_id) # 5 \/ measurement_uid \in {NONE, EMPTY}) =>
        /\ pc # "start" => order = <<"click">>
        /\ Len(calls) <= 1
        /\ \A k \in 1..Len(io) : io[k].op \in {"uid_lookup", "rid_lookup", "s3"}
        /\ \A i \in 1..Len(calls) :
              /\ calls[i].src = "click"
              /\ (calls[i].res.kind = "ret" /\ calls[i].res.val = NONE) =>
                    /\ pc \in {"return", "done"}
                    /\ pc = "done" => outcome = "MsmtNotFound"

\* a measurement_uid with a report_id without underscores: the index had no
\* row and the request ended in MsmtNotFound
C25_Witness ==
    /\ CountUnderscore(report_id) = 0
    /\ measurement_uid = UID_FRESH
    /\ pc = "done"
    /\ outcome = "MsmtNotFound"
    /\ Len(io) = 1 /\ io[1].op = "uid_lookup" /\ io[1].st = "norow"

----------------------------------------------------------------------------
(* Bodies and the or-chain *)

\* C26: whatever a probe returns is None or a non-empty byte string, and a
\* byte string returned by a probe ends the chain and is the body served.
C26_BodyNeverDiscarded ==
    \A i \in 1..Len(calls) :
        calls[i].res.kind = "ret" =>
            \/ calls[i].res.val = <<"None">>
            \/ /\ Len(calls[i].res.val) > 0
               /\ i = Len(calls)
               /\ pc \in {"return", "done"}
               /\ body = calls[i].res.val
               /\ pc = "done" => outcome = "body"

\* the spool held a wrapper whose content is the empty string: its JSON text
\* was served
C26_Witness ==
    /\ pc = "done" /\ outcome = "body"
    /\ Len(calls) = 1 /\ calls[1].src = "disk"
    /\ io[1].st = "post" /\ io[1].post = POST_JSON_STR
    /\ body = <<"\"", "\"">>

----------------------------------------------------------------------------
(* Pagination *)

\* the least k with k * b >= a
IsCeil(k, a, b) == k * b >= a /\ (k - 1) * b < a

----------------------------------------------------------------------------
(* Measurements with probe_asn 0 *)

\* C30: a request for a measurement whose fastpath row has probe_asn 0 gets
\* no body from any of the three endpoints, and no source is probed for it.
C30_Asn0Withheld ==
    ( /\ meta_req.has_uid
      /\ \E r \in meta_fastpath : r.uid = meta_req.uid /\ r.probe_asn = 0 )
    => ( /\ meta_resp.body = <<"None">>
         /\ ~meta_resp.probed )

\* the same for get_raw_measurement and get_measurement_meta alone
C30_Asn0WithheldByMeta ==
    ( /\ meta_req.endpoint \in {"raw_measurement", "measurement_meta"}
      /\ meta_req.has_uid
      /\ \E r \in meta_fastpath : r.uid = meta_req.uid /\ r.probe_asn = 0 )
    => ( /\ meta_resp.body = <<"None">>
         /\ ~meta_resp.probed )

====
